---- MODULE Spec2Model ----
(***************************************************************************)
(* Model of scripts/cibuildpkg.py (the Builder orchestrator) and of the    *)
(* extract/build loops of scripts/build-ffmpeg.py.                         *)
(*                                                                         *)
(* Strings are sequences of tokens: "+" on Python strings is \o here, a    *)
(* path is the sequence of its segments and separators, an argument is the *)
(* sequence of its flag token and its value tokens.  Dictionaries are      *)
(* functions whose DOMAIN is the set of keys present.  The two mutable     *)
(* mappings a Builder method can hold a reference to, os.environ and the   *)
(* local `env`, are two cells of the machine record, addressed by name, so *)
(* that copying and aliasing are different things.                         *)
(*                                                                         *)
(* Three specifications share the variables: Spec calls the Builder with   *)
(* the driver's kinds of package in any order, LibSpec calls it, after     *)
(* create_directories, with packages that reach its special cases and its  *)
(* assertions, and DriverSpec is the script build-ffmpeg.py, run again     *)
(* after it ended or aborted.                                              *)
(***************************************************************************)
EXTENDS Integers, Sequences, FiniteSets, TLC

VARIABLES
    host,       \* platform.system(), platform.machine(): fixed for a behaviour
    files,      \* the filesystem: the set of paths that exist
    environ,    \* os.environ of the current process
    packages,   \* the caller's Package objects, by name
    cwd,        \* os.getcwd()
    last,       \* the last Builder call: what it was, what it ran, how it ended
    ncalls,     \* Builder calls made so far in the behaviour
    pc,         \* position of the driver script
    idx,        \* index of the driver's current loop
    runs,       \* driver processes started so far
    trace       \* the external invocations of the current driver process, in order

vars == <<host, files, environ, packages, cwd, last, ncalls, pc, idx, runs, trace>>

(* ------------------------------ bounds -------------------------------- *)

\* Builder calls per behaviour of Spec
MaxCalls == 2
\* driver processes per behaviour of DriverSpec
MaxRuns == 3
\* Builder calls per behaviour of LibSpec, after create_directories
MaxLibCalls == 1

(* ------------------------- strings and paths -------------------------- *)

\* os.path.sep
Sep == IF host.system = "Windows" THEN "\\" ELSE "/"

\* os.path.join(a, b) for a relative b
path_join(a, b) ==
    IF a # <<>> /\ a[Len(a)] = Sep THEN a \o b ELSE a \o <<Sep>> \o b

\* p is path f or a directory above it
IsUnder(f, p) ==
    /\ Len(p) <= Len(f)
    /\ SubSeq(f, 1, Len(p)) = p
    /\ (Len(f) > Len(p) => (f[Len(p) + 1] = Sep \/ p[Len(p)] = Sep))

\* os.path.exists(p)
path_exists(fs, p) == \E f \in fs : IsUnder(f, p)

\* a removal that takes everything on disk with it
rmtree_all(fs, p) == {}

\* shutil.rmtree(p)
rmtree(fs, p) == {f \in fs : ~IsUnder(f, p)}

RECURSIVE replace_token(_, _, _)
\* str.replace(old, new) for a one-token old
replace_token(s, old, new) ==
    IF s = <<>> THEN <<>>
    ELSE <<IF Head(s) = old THEN new ELSE Head(s)>> \o replace_token(Tail(s), old, new)

RECURSIVE LastSegment(_)
\* s.split("/")[-1]
LastSegment(s) ==
    IF \A i \in 1..Len(s) : s[i] # "/" THEN s
    ELSE LastSegment(Tail(s))

\* the process working directory when the script starts
StartDir == IF host.system = "Windows" THEN <<"C:", "\\", "work">> ELSE <<"/", "work">>

\* args.destination
DestDir == IF host.system = "Windows" THEN <<"C:", "\\", "vendor">> ELSE <<"/", "vendor">>

(* ---------------------------- dictionaries ---------------------------- *)

\* d.get(k), with None and "" both read as the empty string
dict_get(d, k) == IF k \in DOMAIN d THEN d[k] ELSE <<>>

\* d[k] = v
dict_set(d, k, v) == [x \in DOMAIN d \cup {k} |-> IF x = k THEN v ELSE d[x]]

(* ------------------------------ Package ------------------------------- *)

\* the dataclass with its defaults
Package(name, source_url) ==
    [name |-> name,
     source_url |-> source_url,
     build_system |-> "autoconf",
     build_arguments |-> <<>>,
     build_dir |-> <<"build">>,
     build_parallel |-> TRUE,
     fflags |-> <<>>,
     source_dir |-> <<>>,
     source_filename |-> <<>>,
     source_strip_components |-> 1,
     gpl |-> FALSE]

\* a derived copy that drops the build_arguments override
replace_build_dir_only(package, new_build_dir, new_build_arguments) ==
    [package EXCEPT !.build_dir = new_build_dir]

\* dataclasses.replace(package, build_dir=..., build_arguments=...)
replace(package, new_build_dir, new_build_arguments) ==
    [package EXCEPT !.build_dir = new_build_dir, !.build_arguments = new_build_arguments]

(* ------------------------------ Builder ------------------------------- *)

\* Builder.__init__
builder_dest_dir == DestDir \o <<".builder">>
target_dest_dir == DestDir
self_build_dir == path_join(StartDir, <<"build">>)
self_patch_dir == path_join(StartDir, <<"patches">>)
self_source_dir == path_join(StartDir, <<"source">>)

\* one prefix for both roles
_prefix_shared(for_builder) == target_dest_dir

\* Builder._prefix
_prefix(for_builder) == IF for_builder THEN builder_dest_dir ELSE target_dest_dir

\* Builder._mangle_path
_mangle_path(path) ==
    IF host.system = "Windows"
    THEN replace_token(replace_token(replace_token(path, Sep, "/"), "C:", "/c"), "D:", "/d")
    ELSE path

\* installed_file of build and extract
installed_file(name, for_builder) ==
    path_join(path_join(path_join(path_join(_prefix(for_builder), <<"var">>), <<"lib">>),
                        <<"cibuildpkg">>), <<name>>)

(* ------------------- the machine a handler runs on -------------------- *)
(* A handler is a function from machine to machine.  A machine is          *)
(*   files, environ, packages, cwd : the program state,                    *)
(*   local   : the mapping the method's variable `env` refers to,          *)
(*   cmds    : the external invocations of this call, in order,            *)
(*   derived : the mappings _environment returned in this call, in order,  *)
(*   exc     : the exception propagating, "none" when there is none,       *)
(*   failAt  : which invocation of this call exits non-zero (0: none).     *)
(* Every statement is skipped while an exception propagates.               *)

\* `x = e` followed by F(x): e is evaluated once
Bind(e, F(_)) == CHOOSE r \in {F(x) : x \in {e}} : TRUE

Machine(fs, env, pkgs, dir, failAt) ==
    [files |-> fs, environ |-> env, local |-> << >>, packages |-> pkgs, cwd |-> dir,
     cmds |-> << >>, derived |-> << >>, exc |-> "none", failAt |-> failAt]

\* an assertion that is not checked
raise_nothing(m, e) == m

\* `raise e`, and the failure of `assert`
raise(m, e) == IF m.exc # "none" THEN m ELSE [m EXCEPT !.exc = e]

\* the build directory of the package an invocation runs in
PkgOfCwd(dir) == dir[Len(self_build_dir) + 2]

IsPrefixArg(arg) == arg # <<>> /\ Head(arg) \in {"-DCMAKE_INSTALL_PREFIX=", "--prefix="}

\* the install prefix a configure/generate invocation selects: the last one given
InstallPrefixOf(argv) ==
    LET I == {i \in 1..Len(argv) : IsPrefixArg(argv[i])}
        k == CHOOSE i \in I : \A j \in I : j <= i
    IN  Tail(argv[k])

IsInstall(argv) == Len(argv) >= 2 /\ argv[2] \in {<<"install">>, <<"--install">>}
IsCompile(argv) ==
    \/ argv[1] = <<"make">> /\ ~IsInstall(argv)
    \/ argv[1] = <<"ninja">> /\ ~IsInstall(argv)
    \/ argv[1] = <<"cmake">> /\ Len(argv) >= 2 /\ argv[2] = <<"--build">>

\* what a successful external invocation leaves on the filesystem: curl writes its
\* output file, a static CMake build leaves lib<name>.a in the build directory, an
\* install step puts the package under the install prefix of its configure step
tool_effect(m, cmd) ==
    LET n == Len(m.cmds)
        argv == cmd.argv
    IN  IF argv[1] = <<"curl">>
        THEN [m EXCEPT !.files = @ \cup {argv[4]}]
        ELSE IF IsInstall(argv)
        THEN [m EXCEPT !.files = @ \cup
                {path_join(path_join(InstallPrefixOf(m.cmds[n - 2].argv), <<"lib">>),
                           <<"lib", PkgOfCwd(cmd.cwd)>>)}]
        ELSE IF IsCompile(argv) /\ \E i \in 1..Len(m.cmds[n - 1].argv) :
                                        m.cmds[n - 1].argv[i] = <<"-DENABLE_SHARED=0">>
        THEN [m EXCEPT !.files = @ \cup {path_join(cmd.cwd, <<"lib", PkgOfCwd(cmd.cwd), ".a">>)}]
        ELSE m

\* subprocess.run without check=True: a non-zero exit goes unnoticed
run_unchecked(m, argv, envref) ==
    IF m.exc # "none" THEN m
    ELSE LET ok == Len(m.cmds) + 1 # m.failAt
             cmd == [argv |-> argv, env |-> m[envref], cwd |-> m.cwd, ok |-> ok]
             m1 == [m EXCEPT !.cmds = Append(@, cmd)]
         IN  IF ok THEN tool_effect(m1, cmd) ELSE m1

\* run(cmd, env): subprocess.run(cmd, check=True, env=env)
run(m, argv, envref) ==
    IF m.exc # "none" THEN m
    ELSE LET ok == Len(m.cmds) + 1 # m.failAt
             cmd == [argv |-> argv, env |-> m[envref], cwd |-> m.cwd, ok |-> ok]
             m1 == [m EXCEPT !.cmds = Append(@, cmd)]
         IN  IF ok THEN tool_effect(m1, cmd) ELSE [m1 EXCEPT !.exc = "CalledProcessError"]

\* a download whose exit code is not looked at
fetch_unchecked(m, url, path) ==
    run_unchecked(m, << <<"curl">>, <<"-L">>, <<"-o">>, path, url >>, "environ")

\* fetch(url, path)
fetch(m, url, path) == run(m, << <<"curl">>, <<"-L">>, <<"-o">>, path, url >>, "environ")

\* os.makedirs(path, exist_ok=True)
makedirs(m, path) == IF m.exc # "none" THEN m ELSE [m EXCEPT !.files = @ \cup {path}]

\* entering the body of `with chdir(path)`
chdir_enter(m, path) == IF m.exc # "none" THEN m ELSE [m EXCEPT !.cwd = path]

\* a context manager that swallows the exception of its body
chdir_exit_swallow(m, saved) == [m EXCEPT !.cwd = saved, !.exc = "none"]

\* a directory change restored only when the body returns normally
chdir_exit_on_success(m, saved) == IF m.exc # "none" THEN m ELSE [m EXCEPT !.cwd = saved]

\* leaving it: the finally clause runs on every exit path
chdir_exit(m, saved) == [m EXCEPT !.cwd = saved]

\* os.rename(src, dst), both relative to the working directory
os_rename(m, src, dst) ==
    IF m.exc # "none" THEN m
    ELSE IF path_join(m.cwd, src) \notin m.files THEN [m EXCEPT !.exc = "FileNotFoundError"]
    ELSE [m EXCEPT !.files = (@ \ {path_join(m.cwd, src)}) \cup {path_join(m.cwd, dst)}]

\* make_args(parallel=...)
make_args(parallel) ==
    IF parallel /\ host.machine \notin {"aarch64", "ppc64le", "s390x"} THEN << <<"-j">> >> ELSE << >>

\* the new value put after the old one
append_env(m, ref, name, new, separator) ==
    IF m.exc # "none" THEN m
    ELSE LET old == dict_get(m[ref], name)
         IN  [m EXCEPT ![ref] = dict_set(@, name, IF old # <<>> THEN old \o separator \o new ELSE new)]

\* the variable overwritten instead of prepended to
overwrite_env(m, ref, name, new, separator) ==
    IF m.exc # "none" THEN m ELSE [m EXCEPT ![ref] = dict_set(@, name, new)]

\* prepend_env(env, name, new, separator)
prepend_env(m, ref, name, new, separator) ==
    IF m.exc # "none" THEN m
    ELSE LET old == dict_get(m[ref], name)
         IN  [m EXCEPT ![ref] = dict_set(@, name, IF old # <<>> THEN new \o separator \o old ELSE new)]

ArchArm64 == <<"-arch", " ", "arm64">>

\* s.split()
split_ws(s) == SelectSeq(s, LAMBDA t : t # " ")

\* get_platform() on a 64-bit interpreter
get_platform(m) ==
    IF host.system = "Linux" THEN <<"manylinux_", host.machine>>
    ELSE IF host.system = "Darwin" THEN <<"macosx_", split_ws(m.environ["ARCHFLAGS"])[2]>>
    ELSE <<"win_", "amd64">>

\* env = os.environ: no copy, `env` is os.environ itself
environ_alias(m) == [m |-> m, ref |-> "environ"]

\* env = os.environ.copy(): a new mapping, which `env` then refers to
environ_copy(m) == [m |-> [m EXCEPT !.local = m.environ], ref |-> "local"]

\* `return env` of _environment: the mapping returned is noted in the call's record
return_env(m, ref, for_builder) ==
    [m |-> [m EXCEPT !.derived = Append(@, [for_builder |-> for_builder, env |-> m[ref]])],
     ref |-> ref]

\* Builder._environment: the machine after it, and the mapping it returns
_environment(m0, for_builder) ==
    LET prefix == _prefix(for_builder)
    IN
    Bind(environ_copy(m0), LAMBDA c :
    Bind(prepend_env(c.m, c.ref, "CPPFLAGS",
                     <<"-I">> \o _mangle_path(path_join(prefix, <<"include">>)), <<" ">>), LAMBDA m1 :
    Bind(prepend_env(m1, c.ref, "LDFLAGS",
                     <<"-L">> \o _mangle_path(path_join(prefix, <<"lib">>)), <<" ">>), LAMBDA m2 :
    Bind(prepend_env(m2, c.ref, "PKG_CONFIG_PATH",
                     _mangle_path(path_join(path_join(prefix, <<"lib">>), <<"pkgconfig">>)),
                     <<":">>), LAMBDA m3 :
    LET arch_flags == m3.environ["ARCHFLAGS"]
    IN
    IF host.system = "Darwin" /\ ~for_builder
    THEN Bind(IF arch_flags = ArchArm64 THEN prepend_env(m3, c.ref, "ASFLAGS", arch_flags, <<" ">>)
              ELSE m3, LAMBDA m4 :
         Bind(prepend_env(m4, c.ref, "CFLAGS", arch_flags, <<" ">>), LAMBDA m5 :
         Bind(prepend_env(m5, c.ref, "CXXFLAGS", arch_flags, <<" ">>), LAMBDA m6 :
         Bind(prepend_env(m6, c.ref, "LDFLAGS", arch_flags, <<" ">>), LAMBDA m7 :
         return_env(m7, c.ref, for_builder)))))
    ELSE return_env(m3, c.ref, for_builder)))))

(* ----------------------------- adapters ------------------------------- *)

RECURSIVE refresh_config_files(_, _)
\* the os.walk loop of _build_with_autoconf over the config.guess/config.sub found
refresh_config_files(m, found) ==
    IF found = {} \/ m.exc # "none" THEN m
    ELSE LET script_path == CHOOSE f \in found : TRUE
             name == script_path[Len(script_path)]
             cache_path == path_join(self_source_dir, <<name>>)
         IN  Bind(IF ~path_exists(m.files, cache_path)
                  THEN fetch(m, <<"https://git.savannah.gnu.org/cgit/config.git/plain", "/", name>>,
                             cache_path)
                  ELSE m,
                  LAMBDA m1 : refresh_config_files(m1, found \ {script_path}))

\* the cross-compilation test without its role condition
darwin_arm64_any_role(m, for_builder) ==
    /\ host.system = "Darwin"
    /\ m.environ["ARCHFLAGS"] = ArchArm64

\* darwin_arm64_cross of _build_with_autoconf
darwin_arm64_cross(m, for_builder) ==
    /\ host.system = "Darwin"
    /\ ~for_builder
    /\ m.environ["ARCHFLAGS"] = ArchArm64

\* Builder._build_with_autoconf
_build_with_autoconf(m, package, for_builder) ==
    IF m.exc # "none" THEN m
    ELSE IF package.build_system # "autoconf" THEN raise(m, "AssertionError")
    ELSE
    LET package_path == path_join(self_build_dir, <<package.name>>)
        package_source_path == path_join(package_path, package.source_dir)
        package_build_path == path_join(package_path, package.build_dir)
        found == {f \in m.files : IsUnder(f, package_path)
                                  /\ f[Len(f)] \in {"config.guess", "config.sub"}}
        prefix == _prefix(for_builder)
        base_args == << <<"--disable-static">>, <<"--enable-shared">>,
                        <<"--libdir=">> \o _mangle_path(path_join(prefix, <<"lib">>)),
                        <<"--prefix=">> \o _mangle_path(prefix) >>
        configure_args ==
            IF package.name = "vpx"
            THEN IF darwin_arm64_cross(m, for_builder) THEN base_args \o << <<"--target=arm64-darwin20-gcc">> >>
                 ELSE IF host.system = "Darwin"
                 THEN base_args \o << <<"--target=x86_64-darwin13-gcc">> >>
                 ELSE IF host.system = "Windows"
                 THEN base_args \o << <<"--target=x86_64-win64-gcc">> >>
                 ELSE base_args
            ELSE IF darwin_arm64_cross(m, for_builder)
            THEN IF package.name = "ffmpeg"
                 THEN base_args \o << <<"--arch=arm64">>, <<"--enable-cross-compile">> >>
                 ELSE base_args \o << <<"--build=x86_64-apple-darwin">>,
                                      <<"--host=aarch64-apple-darwin">> >>
            ELSE base_args
    IN
    Bind(refresh_config_files(m, found), LAMBDA m1 :
    IF m1.exc # "none" THEN m1
    ELSE
    Bind(_environment(m1, for_builder), LAMBDA e :
    Bind(IF package.name # "vpx" /\ darwin_arm64_cross(m, for_builder)
         THEN [e.m EXCEPT ![e.ref] = dict_set(dict_set(@, "ac_cv_func_malloc_0_nonnull", <<"yes">>),
                                              "ac_cv_func_realloc_0_nonnull", <<"yes">>)]
         ELSE e.m, LAMBDA m2 :
    Bind(makedirs(m2, package_build_path), LAMBDA m3 :
    Bind(chdir_enter(m3, package_build_path), LAMBDA m4 :
    Bind(run(m4, << <<"sh">>, _mangle_path(path_join(package_source_path, <<"configure">>)) >>
                 \o configure_args \o package.build_arguments, e.ref), LAMBDA m5 :
    Bind(run(m5, << <<"make">> >> \o make_args(package.build_parallel) \o << <<"V=1">> >>, e.ref),
         LAMBDA m6 :
    Bind(run(m6, << <<"make">>, <<"install">> >>, e.ref), LAMBDA m7 :
    chdir_exit(m7, m3.cwd)))))))))

\* Builder._build_with_cmake
_build_with_cmake(m, package, for_builder) ==
    IF m.exc # "none" THEN m
    ELSE IF package.build_system # "cmake" THEN raise(m, "AssertionError")
    ELSE
    LET package_path == path_join(self_build_dir, <<package.name>>)
        package_source_path == path_join(package_path, package.source_dir)
        package_build_path == path_join(package_path, package.build_dir)
        prefix == _prefix(for_builder)
        base_args == << <<"-GUnix Makefiles">>, <<"-DBUILD_SHARED_LIBS=1">>,
                        <<"-DCMAKE_INSTALL_LIBDIR=lib">>,
                        <<"-DCMAKE_INSTALL_PREFIX=">> \o prefix >>
        darwin_args ==
            IF host.system = "Darwin"
            THEN << <<"-DCMAKE_INSTALL_NAME_DIR=">> \o path_join(prefix, <<"lib">>) >>
                 \o (IF ~for_builder /\ m.environ["ARCHFLAGS"] = ArchArm64
                     THEN << <<"-DCMAKE_OSX_ARCHITECTURES=arm64">>, <<"-DCMAKE_SYSTEM_NAME=Darwin">>,
                             <<"-DCMAKE_SYSTEM_PROCESSOR=arm64">> >>
                     ELSE << >>)
            ELSE << >>
        cmake_args == base_args \o darwin_args
    IN
    Bind(_environment(m, for_builder), LAMBDA e :
    Bind(makedirs(e.m, package_build_path), LAMBDA m3 :
    Bind(chdir_enter(m3, package_build_path), LAMBDA m4 :
    Bind(run(m4, << <<"cmake">>, package_source_path >> \o cmake_args \o package.build_arguments,
             e.ref), LAMBDA m5 :
    Bind(run(m5, << <<"cmake">>, <<"--build">>, <<".">>, <<"--verbose">> >>
                 \o make_args(package.build_parallel), e.ref), LAMBDA m6 :
    Bind(run(m6, << <<"cmake">>, <<"--install">>, <<".">> >>, e.ref), LAMBDA m7 :
    chdir_exit(m7, m3.cwd)))))))

\* Builder._build_with_meson
_build_with_meson(m, package, for_builder) ==
    IF m.exc # "none" THEN m
    ELSE IF package.build_system # "meson" THEN raise(m, "AssertionError")
    ELSE
    LET package_path == path_join(self_build_dir, <<package.name>>)
        package_source_path == path_join(package_path, package.source_dir)
        package_build_path == path_join(package_path, package.build_dir)
        prefix == _prefix(for_builder)
        base_args == << <<"--libdir=lib">>, <<"--prefix=">> \o prefix >>
        cross == /\ host.system = "Darwin"
                 /\ ~for_builder
                 /\ m.environ["ARCHFLAGS"] = ArchArm64
        cross_file == path_join(package_path, <<"meson.cross">>)
        meson_args == IF cross THEN base_args \o << <<"--cross-file=">> \o cross_file >> ELSE base_args
    IN
    Bind(_environment(m, for_builder), LAMBDA e :
    Bind(IF cross THEN [e.m EXCEPT !.files = @ \cup {cross_file}] ELSE e.m, LAMBDA m2 :
    Bind(makedirs(m2, package_build_path), LAMBDA m3 :
    Bind(chdir_enter(m3, package_build_path), LAMBDA m4 :
    Bind(run(m4, << <<"meson">>, package_source_path >> \o meson_args \o package.build_arguments,
             e.ref), LAMBDA m5 :
    Bind(run(m5, << <<"ninja">>, <<"--verbose">> >>, e.ref), LAMBDA m6 :
    Bind(run(m6, << <<"ninja">>, <<"install">> >>, e.ref), LAMBDA m7 :
    chdir_exit(m7, m3.cwd))))))))

\* the 12-bit archive renamed to upstream's name instead
Renamed12_main == <<"lib", "x265_main12", ".a">>

\* the file names of the two os.rename calls of _build_x265
Renamed12 == <<"lib", "x265-12bits", ".a">>
Renamed10 == <<"lib", "x265-10bits", ".a">>

\* the build_arguments _build_x265 gives the third pass
x265_link_arguments ==
    << <<"-DEXTRA_LIB=", "x265-10bits", ".a", ";", "x265-12bits", ".a">>,
       <<"-DLINKED_10BIT=1">>,
       <<"-DLINKED_12BIT=1">>,
       <<"-DEXTRA_LINK_FLAGS=", "-L", "..", "/", "x265-10bits", " ", "-L", "..", "/", "x265-12bits">> >>

\* package.build_arguments = [...]: an assignment to the caller's object
set_build_arguments(m, name, value) ==
    IF m.exc # "none" THEN m ELSE [m EXCEPT !.packages[name].build_arguments = value]

\* Builder._build_x265
_build_x265(m, name, for_builder) ==
    LET package == m.packages[name]
    IN
    IF m.exc # "none" THEN m
    ELSE IF package.name # "x265" THEN raise(m, "AssertionError")
    ELSE IF Len(package.build_arguments) # 0 THEN raise(m, "AssertionError")
    ELSE
    LET package_path == path_join(self_build_dir, <<package.name>>)
        dummy_install_path == path_join(package_path, <<"dummy_install_path">>)
        platform == get_platform(m)
        flags_high_bits ==
            IF ~(\E i \in 1..Len(platform) : platform[i] \in {"x86_64", "amd64"})
            THEN << <<"-DENABLE_ASSEMBLY=0">>, <<"-DENABLE_ALTIVEC=0">> >>
            ELSE << >>
        x265_12bits == replace(package, <<"x265-12bits">>,
                               << <<"-DHIGH_BIT_DEPTH=1">>, <<"-DMAIN12=1">>, <<"-DEXPORT_C_API=0">>,
                                  <<"-DENABLE_CLI=0">>, <<"-DENABLE_SHARED=0">>,
                                  <<"-DCMAKE_INSTALL_PREFIX=">> \o dummy_install_path >>
                               \o flags_high_bits)
        x265_10bits == replace(package, <<"x265-10bits">>,
                               << <<"-DHIGH_BIT_DEPTH=1">>, <<"-DEXPORT_C_API=0">>,
                                  <<"-DENABLE_CLI=0">>, <<"-DENABLE_SHARED=0">>,
                                  <<"-DCMAKE_INSTALL_PREFIX=">> \o dummy_install_path >>
                               \o flags_high_bits)
    IN
    Bind(_build_with_cmake(m, x265_12bits, for_builder), LAMBDA m1 :
    Bind(_build_with_cmake(m1, x265_10bits, for_builder), LAMBDA m2 :
    Bind(chdir_enter(m2, path_join(package_path, x265_12bits.build_dir)), LAMBDA m3 :
    Bind(chdir_exit(os_rename(m3, <<"lib", "x265", ".a">>, Renamed12), m2.cwd), LAMBDA m4 :
    Bind(chdir_enter(m4, path_join(package_path, x265_10bits.build_dir)), LAMBDA m5 :
    Bind(chdir_exit(os_rename(m5, <<"lib", "x265", ".a">>, Renamed10), m4.cwd), LAMBDA m6 :
    Bind(set_build_arguments(m6, name, x265_link_arguments), LAMBDA m7 :
    _build_with_cmake(m7, m7.packages[name], for_builder))))))))

(* ----------------------- the Builder's operations --------------------- *)

\* the early return of build and extract left out
never_installed(fs, f) == FALSE

\* os.path.exists(installed_file)
already_installed(fs, f) == path_exists(fs, f)

\* the selection by build_system alone, without the override by name
dispatch_by_build_system(m, name, for_builder) ==
    LET package == m.packages[name]
    IN  IF package.build_system = "cmake" THEN _build_with_cmake(m, package, for_builder)
        ELSE IF package.build_system = "meson" THEN _build_with_meson(m, package, for_builder)
        ELSE _build_with_autoconf(m, package, for_builder)

\* the strategy Builder.build selects
dispatch(m, name, for_builder) ==
    LET package == m.packages[name]
    IN  IF package.name = "x265" THEN _build_x265(m, name, for_builder)
        ELSE IF package.build_system = "cmake" THEN _build_with_cmake(m, package, for_builder)
        ELSE IF package.build_system = "meson" THEN _build_with_meson(m, package, for_builder)
        ELSE _build_with_autoconf(m, package, for_builder)

\* Builder.build(package, for_builder=...), package being the caller's object of that name
build(m, name, for_builder) ==
    LET marker == installed_file(m.packages[name].name, for_builder)
    IN  IF already_installed(m.files, marker) THEN m
        ELSE Bind(dispatch(m, name, for_builder), LAMBDA m1 :
                  IF m1.exc # "none" THEN m1 ELSE [m1 EXCEPT !.files = @ \cup {marker}])

\* a reset that clears the source directory along with the build directory
create_directories_fresh_cache(m) ==
    LET m1 == [m EXCEPT !.files = rmtree(rmtree(@, self_build_dir), self_source_dir)]
        m2 == makedirs(makedirs(m1, self_build_dir), self_source_dir)
    IN  IF host.system = "Darwin"
           /\ ~({"ARCHFLAGS", "MACOSX_DEPLOYMENT_TARGET"} \subseteq DOMAIN m.environ)
        THEN raise(m, "KeyError")
        ELSE prepend_env(m2, "environ", "PATH", path_join(builder_dest_dir, <<"bin">>),
                         IF host.system = "Windows" THEN <<";">> ELSE <<":">>)

\* the scratch tree of the previous run kept
create_directories_keep_scratch(m) ==
    LET m2 == makedirs(makedirs(m, self_build_dir), self_source_dir)
    IN  IF host.system = "Darwin"
           /\ ~({"ARCHFLAGS", "MACOSX_DEPLOYMENT_TARGET"} \subseteq DOMAIN m.environ)
        THEN raise(m, "KeyError")
        ELSE prepend_env(m2, "environ", "PATH", path_join(builder_dest_dir, <<"bin">>),
                         IF host.system = "Windows" THEN <<";">> ELSE <<":">>)

\* Builder.create_directories
create_directories(m) ==
    LET m1 == IF path_exists(m.files, self_build_dir)
              THEN [m EXCEPT !.files = rmtree(@, self_build_dir)]
              ELSE m
        m2 == makedirs(makedirs(m1, self_build_dir), self_source_dir)
    IN  IF host.system = "Darwin"
           /\ ~({"ARCHFLAGS", "MACOSX_DEPLOYMENT_TARGET"} \subseteq DOMAIN m.environ)
        THEN raise(m, "KeyError")
        ELSE prepend_env(m2, "environ", "PATH", path_join(builder_dest_dir, <<"bin">>),
                         IF host.system = "Windows" THEN <<";">> ELSE <<":">>)

\* tar.getnames() of the archive a package's source_url serves
TarNames(name) ==
    IF name = "serf" THEN {<<name, "-src", "/", "SConstruct">>, <<"README">>}
    ELSE IF name \in {"gperf", "nasm", "x264", "ffmpeg", "vpx"}
    THEN {<<name, "-src", "/", "configure">>, <<name, "-src", "/", "config.guess">>}
    ELSE IF name = "x265" THEN {<<name, "-src", "/", "source", "/", "CMakeLists.txt">>}
    ELSE IF name = "dav1d" THEN {<<name, "-src", "/", "meson.build">>}
    ELSE {<<name, "-src", "/", "CMakeLists.txt">>}

RECURSIVE FirstSegment(_)
\* name.split("/")[0]
FirstSegment(s) == IF s = <<>> \/ Head(s) = "/" THEN <<>> ELSE <<Head(s)>> \o FirstSegment(Tail(s))

RECURSIVE Basename(_)
\* os.path.basename(path.rstrip(os.path.sep))
Basename(p) ==
    IF p # <<>> /\ p[Len(p)] = Sep THEN Basename(SubSeq(p, 1, Len(p) - 1))
    ELSE IF \A i \in 1..Len(p) : p[i] # Sep THEN p
    ELSE Basename(Tail(p))

\* shutil.move(src, dst) of a directory: into dst when dst is a directory that exists
shutil_move(m, src, dst) ==
    LET real_dst == IF path_exists(m.files, dst) THEN path_join(dst, Basename(src)) ELSE dst
        stem == IF src[Len(src)] = Sep THEN SubSeq(src, 1, Len(src) - 1) ELSE src
    IN  IF m.exc # "none" THEN m
        ELSE IF path_exists(m.files, real_dst) THEN raise(m, "shutil.Error")
        ELSE [m EXCEPT !.files = {f \in @ : ~IsUnder(f, stem)}
                                 \cup {real_dst \o SubSeq(f, Len(stem) + 1, Len(f)) :
                                         f \in {g \in m.files : IsUnder(g, stem)}}]

\* the assertion left out: any set of top-level segments passes
any_prefixes(prefixes) == TRUE

\* len(prefixes) == 1
single_prefix(prefixes) == Cardinality(prefixes) = 1

\* Builder.extract(package, for_builder=...)
extract(m, name, for_builder) ==
    LET package == m.packages[name]
        marker == installed_file(package.name, for_builder)
        path == path_join(self_build_dir, <<package.name>>)
        patch == path_join(self_patch_dir, <<package.name, ".patch">>)
        tarball == path_join(self_source_dir,
                             IF package.source_filename # <<>> THEN package.source_filename
                             ELSE LastSegment(package.source_url))
        names == TarNames(package.name)
        prefixes == {FirstSegment(n) : n \in names}
        prefix == IF package.source_strip_components # 0 THEN CHOOSE x \in prefixes : TRUE ELSE <<>>
        temp_dir == path_join(self_build_dir, <<"tmp">>)
    IN  IF already_installed(m.files, marker) THEN m
        ELSE IF package.source_strip_components \notin {0, 1} THEN raise(m, "AssertionError")
        ELSE
        Bind(IF ~path_exists(m.files, tarball) THEN fetch(m, package.source_url, tarball) ELSE m,
             LAMBDA m1 :
        IF m1.exc # "none" THEN m1
        ELSE IF package.source_strip_components # 0 /\ ~single_prefix(prefixes)
        THEN raise(m1, "AssertionError")
        ELSE IF ~path_exists(m1.files, self_build_dir) THEN raise(m1, "FileNotFoundError")
        ELSE
        Bind([m1 EXCEPT !.files = @ \cup {path_join(temp_dir, replace_token(n, "/", Sep)) :
                                            n \in names}], LAMBDA m2 :
        Bind(shutil_move(m2, path_join(temp_dir, prefix), path), LAMBDA m3 :
        Bind([m3 EXCEPT !.files = rmtree(@, temp_dir)], LAMBDA m4 :
        IF m4.exc = "none" /\ path_exists(m4.files, patch)
        THEN run(m4, << <<"patch">>, <<"-d">>, path, <<"-i">>, patch, <<"-p1">> >>, "environ")
        ELSE m4))))

(* ------------------------ the caller's packages ----------------------- *)

Url(file) == <<"https:", "/", "/", "example.org", "/", "releases", "/">> \o file

\* the invocations of the script the model starts from: platform.system(),
\* platform.machine(), the ambient environment, and --disable-gpl
Ambient(extra) == ("PATH" :> <<"/usr/bin">>) @@ extra
Hosts ==
    { [system |-> "Linux", machine |-> "x86_64", disable_gpl |-> FALSE,
       ambient |-> Ambient("CPPFLAGS" :> <<"-DX">>)],
      [system |-> "Linux", machine |-> "aarch64", disable_gpl |-> FALSE,
       ambient |-> Ambient(("CIBUILDWHEEL" :> <<"1">>) @@ ("LDFLAGS" :> << >>))],
      [system |-> "Darwin", machine |-> "x86_64", disable_gpl |-> FALSE,
       ambient |-> Ambient(("ARCHFLAGS" :> ArchArm64) @@ ("MACOSX_DEPLOYMENT_TARGET" :> <<"10.9">>))],
      [system |-> "Darwin", machine |-> "x86_64", disable_gpl |-> TRUE,
       ambient |-> Ambient(("ARCHFLAGS" :> <<"-arch", " ", "x86_64">>)
                           @@ ("MACOSX_DEPLOYMENT_TARGET" :> <<"10.9">>)
                           @@ ("LDFLAGS" :> <<"-L/opt/lib">>))],
      [system |-> "Windows", machine |-> "AMD64", disable_gpl |-> FALSE,
       ambient |-> Ambient("PKG_CONFIG_PATH" :> <<"C:", "\\", "pc">>)] }

\* available_tools of build-ffmpeg.py
available_tools ==
    IF host.system = "Linux" /\ dict_get(host.ambient, "CIBUILDWHEEL") = <<"1">> THEN {"gperf"}
    ELSE IF host.system = "Windows" THEN {"gperf", "nasm"}
    ELSE {}

\* package_groups of build-ffmpeg.py, abridged to one package per kind
package_groups == <<"openjpeg", "x264">>

\* all the Package objects a caller may construct, before the driver's selection
PackageTable ==
    [n \in {"gperf", "nasm", "openjpeg", "x264", "x265", "dav1d"} |->
        IF n = "openjpeg"
        THEN [Package(n, Url(<<"v2.5.2", ".tar.gz">>)) EXCEPT
                !.source_filename = <<"openjpeg-2.5.2", ".tar.gz">>,
                !.build_system = "cmake",
                !.fflags = <<"--enable-libopenjpeg">>]
        ELSE IF n = "x264"
        THEN [Package(n, Url(<<"x264-master", ".tar.bz2">>)) EXCEPT
                !.build_parallel = (host.system # "Windows"),
                !.fflags = <<"--enable-libx264">>,
                !.gpl = TRUE]
        ELSE IF n = "x265"
        THEN [Package(n, Url(<<"x265_3.5", ".tar.gz">>)) EXCEPT
                !.build_system = "cmake",
                !.source_dir = <<"source">>,
                !.fflags = <<"--enable-libx265">>,
                !.gpl = TRUE]
        ELSE IF n = "dav1d"
        THEN [Package(n, Url(<<"dav1d-1.4.0", ".tar.bz2">>)) EXCEPT
                !.build_system = "meson",
                !.fflags = <<"--enable-libdav1d">>]
        ELSE Package(n, Url(<<n, ".tar.gz">>))]

\* the selection loop of build-ffmpeg.py over package_groups
enabled(n) ==
    /\ ~(n = "x264" /\ host.disable_gpl)
    /\ ~(PackageTable[n].gpl /\ host.disable_gpl)

selected == SelectSeq(package_groups, enabled)

RECURSIVE feature_flags(_)
\* what the selection loop appends to ffmpeg_build_args
feature_flags(names) ==
    IF names = <<>> THEN <<>>
    ELSE (IF PackageTable[Head(names)].fflags # <<>> THEN <<PackageTable[Head(names)].fflags>>
          ELSE <<>>) \o feature_flags(Tail(names))

\* ffmpeg_build_args of build-ffmpeg.py (the fixed list abridged)
ffmpeg_build_args ==
    << <<"--disable-doc">>, <<"--enable-libx264">> >>
    \o (IF host.disable_gpl THEN << <<"--enable-libopenh264">>, <<"--disable-libx264">> >>
        ELSE << <<"--disable-libopenh264">>, <<"--enable-gpl">> >>)
    \o feature_flags(selected)

\* all_packages of build-ffmpeg.py: the names, in build order
all_packages ==
    (IF "gperf" \notin available_tools THEN <<"gperf">> ELSE <<>>)
    \o (IF "nasm" \notin available_tools THEN <<"nasm">> ELSE <<>>)
    \o selected
    \o <<"ffmpeg">>

\* the Package objects of a new process
FreshPackages ==
    [n \in DOMAIN PackageTable \cup {"ffmpeg"} |->
        IF n = "ffmpeg"
        THEN [Package(n, Url(<<"ffmpeg-6.1.1", ".tar.xz">>)) EXCEPT
                !.build_arguments = ffmpeg_build_args]
        ELSE PackageTable[n]]

\* what is on disk before the first run: the patches directory
InitialFiles == {path_join(self_patch_dir, <<"openjpeg", ".patch">>),
                 path_join(self_patch_dir, <<"x265", ".patch">>),
                 path_join(self_patch_dir, <<"serf", ".patch">>)}

(* ------------------------------ actions ------------------------------- *)

\* the invocation of a call that may exit non-zero: any one of those the call issues
\* when none fails (m being the machine after that run), or none (0)
FailPoints(m) == 0..Len(m.cmds)

\* the packages and roles the Builder is called with in Spec
ApiNames == {"gperf", "openjpeg", "x265", "dav1d"}

NoCall == [op |-> "none", pkg |-> "", for_builder |-> FALSE, cmds |-> << >>, derived |-> << >>,
           exc |-> "none"]

\* the state after a handler ran to its end (returned or raised)
Commit(m, op, name, for_builder) ==
    /\ files' = m.files
    /\ environ' = m.environ
    /\ packages' = m.packages
    /\ cwd' = m.cwd
    /\ last' = [op |-> op, pkg |-> name, for_builder |-> for_builder, cmds |-> m.cmds,
                derived |-> m.derived, exc |-> m.exc]
    /\ ncalls' = ncalls + 1

Init ==
    /\ host \in Hosts
    /\ files = InitialFiles
    /\ environ = host.ambient
    /\ packages = FreshPackages
    /\ cwd = StartDir
    /\ last = NoCall
    /\ ncalls = 0
    /\ pc = "api"
    /\ idx = 0
    /\ runs = 0
    /\ trace = << >>

CreateDirectories ==
    /\ pc = "api"
    /\ ncalls < MaxCalls
    /\ \E m \in {create_directories(Machine(files, environ, packages, cwd, 0))} :
          Commit(m, "create_directories", "", FALSE)
    /\ UNCHANGED <<host, pc, idx, runs, trace>>

Extract ==
    /\ pc = "api"
    /\ ncalls < MaxCalls
    /\ \E name \in ApiNames, for_builder \in BOOLEAN :
          \E failAt \in FailPoints(extract(Machine(files, environ, packages, cwd, 0), name, for_builder)) :
          \E m \in {extract(Machine(files, environ, packages, cwd, failAt), name, for_builder)} :
             Commit(m, "extract", name, for_builder)
    /\ UNCHANGED <<host, pc, idx, runs, trace>>

Build ==
    /\ pc = "api"
    /\ ncalls < MaxCalls
    /\ \E name \in ApiNames, for_builder \in BOOLEAN :
          \E failAt \in FailPoints(build(Machine(files, environ, packages, cwd, 0), name, for_builder)) :
          \E m \in {build(Machine(files, environ, packages, cwd, failAt), name, for_builder)} :
             Commit(m, "build", name, for_builder)
    /\ UNCHANGED <<host, pc, idx, runs, trace>>

Next == CreateDirectories \/ Extract \/ Build

Spec == Init /\ [][Next]_vars

(* ------ the Builder called with special-case and malformed packages ---- *)

\* Package objects a caller of the Builder may construct besides the driver's: the
\* package the autoconf adapter has a branch for, a package with a build_system no
\* adapter has and an archive with two top-level segments, and the multi-pass
\* package with another build_system and with build arguments
LibPackages ==
    [n \in {"vpx", "serf", "x265_meson", "x265_args"} |->
        IF n = "vpx"
        THEN [Package("vpx", Url(<<"v1.14.0", ".tar.gz">>)) EXCEPT
                !.source_filename = <<"vpx-1.14.0", ".tar.gz">>,
                !.fflags = <<"--enable-libvpx">>]
        ELSE IF n = "serf"
        THEN [Package("serf", Url(<<"serf-1.3.10", ".tar.bz2">>)) EXCEPT
                !.build_system = "scons"]
        ELSE IF n = "x265_meson"
        THEN [PackageTable["x265"] EXCEPT !.build_system = "meson"]
        ELSE [PackageTable["x265"] EXCEPT !.build_arguments = << <<"-DENABLE_CLI=0">> >>]]
    @@ FreshPackages

\* the objects the Builder is called with in LibSpec
LibNames ==
    {"vpx", "ffmpeg", "gperf", "openjpeg", "dav1d", "serf", "x265", "x265_meson", "x265_args"}

LibInit ==
    /\ host \in Hosts
    /\ files = InitialFiles
    /\ environ = host.ambient
    /\ packages = LibPackages
    /\ cwd = StartDir
    /\ last = NoCall
    /\ ncalls = 0
    /\ pc = "new"
    /\ idx = 0
    /\ runs = 0
    /\ trace = << >>

\* builder.create_directories(), once, before the other calls
LibCreateDirectories ==
    /\ pc = "new"
    /\ \E m \in {create_directories(Machine(files, environ, packages, cwd, 0))} :
          Commit(m, "create_directories", "", FALSE)
    /\ pc' = "lib"
    /\ UNCHANGED <<host, idx, runs, trace>>

LibExtract ==
    /\ pc = "lib"
    /\ ncalls <= MaxLibCalls
    /\ \E name \in LibNames, for_builder \in BOOLEAN :
          \E failAt \in FailPoints(extract(Machine(files, environ, packages, cwd, 0), name, for_builder)) :
          \E m \in {extract(Machine(files, environ, packages, cwd, failAt), name, for_builder)} :
             Commit(m, "extract", name, for_builder)
    /\ UNCHANGED <<host, pc, idx, runs, trace>>

LibBuild ==
    /\ pc = "lib"
    /\ ncalls <= MaxLibCalls
    /\ \E name \in LibNames, for_builder \in BOOLEAN :
          \E failAt \in FailPoints(build(Machine(files, environ, packages, cwd, 0), name, for_builder)) :
          \E m \in {build(Machine(files, environ, packages, cwd, failAt), name, for_builder)} :
             Commit(m, "build", name, for_builder)
    /\ UNCHANGED <<host, pc, idx, runs, trace>>

LibNext == LibCreateDirectories \/ LibExtract \/ LibBuild

LibSpec == LibInit /\ [][LibNext]_vars

(* ------------------- the driver, build-ffmpeg.py ---------------------- *)

\* output_tarball
output_tarball == path_join(path_join(StartDir, <<"output">>), <<"ffmpeg-">> \o get_platform([environ |-> host.ambient]) \o <<".tar.gz">>)

\* for_builder of the driver's build loop
is_host_tool(name) == name \in {"nasm", "gperf"}

\* what an external invocation is: the fetch of a file, the application of a patch,
\* or the configure (generate), compile or install step of a backend
StepKind(argv) ==
    IF argv[1] = <<"curl">> THEN "fetch"
    ELSE IF argv[1] = <<"patch">> THEN "patch"
    ELSE IF IsInstall(argv) THEN "install"
    ELSE IF IsCompile(argv) THEN "compile"
    ELSE "configure"

\* the external invocations of one Builder call of the script, as the trace notes them
Invocations(m, op, name) ==
    [i \in 1..Len(m.cmds) |->
        [pkg |-> name, op |-> op, step |-> StepKind(m.cmds[i].argv), ok |-> m.cmds[i].ok]]

\* the script going on to the next package whatever the call's outcome
advance_past_failure(m, loop, next) ==
    IF idx < Len(all_packages) THEN pc' = loop /\ idx' = idx + 1
    ELSE pc' = next /\ idx' = 1

\* where the script goes after a Builder call on all_packages[idx] in loop `loop`
Advance(m, loop, next) ==
    IF m.exc # "none" THEN pc' = "aborted" /\ idx' = idx
    ELSE IF idx < Len(all_packages) THEN pc' = loop /\ idx' = idx + 1
    ELSE pc' = next /\ idx' = 1

DriverInit ==
    /\ host \in Hosts
    /\ files = InitialFiles
    /\ environ = host.ambient
    /\ packages = FreshPackages
    /\ cwd = StartDir
    /\ last = NoCall
    /\ ncalls = 0
    /\ pc = "start"
    /\ idx = 1
    /\ runs = 1
    /\ trace = << >>

\* the output tarball exists: the script does nothing
DriverSkip ==
    /\ pc = "start"
    /\ path_exists(files, output_tarball)
    /\ pc' = "done"
    /\ UNCHANGED <<host, files, environ, packages, cwd, last, ncalls, idx, runs, trace>>

\* builder = Builder(dest_dir); builder.create_directories()
DriverCreateDirectories ==
    /\ pc = "start"
    /\ ~path_exists(files, output_tarball)
    /\ \E m \in {create_directories(Machine(files, environ, packages, cwd, 0))} :
          /\ Commit(m, "create_directories", "", FALSE)
          /\ pc' = (IF m.exc # "none" THEN "aborted" ELSE "extract")
    /\ UNCHANGED <<host, idx, runs, trace>>

\* for package in all_packages: builder.extract(package)
DriverExtract ==
    /\ pc = "extract"
    /\ LET name == all_packages[idx]
       IN  \E failAt \in FailPoints(extract(Machine(files, environ, packages, cwd, 0), name, FALSE)) :
           \E m \in {extract(Machine(files, environ, packages, cwd, failAt), name, FALSE)} :
              /\ Commit(m, "extract", name, FALSE)
              /\ Advance(m, "extract", "build")
              /\ trace' = trace \o Invocations(m, "extract", name)
    /\ UNCHANGED <<host, runs>>

\* for package in all_packages: builder.build(package, for_builder=...)
DriverBuild ==
    /\ pc = "build"
    /\ LET name == all_packages[idx]
           for_builder == is_host_tool(name)
       IN  \E failAt \in FailPoints(build(Machine(files, environ, packages, cwd, 0), name, for_builder)) :
           \E m \in {build(Machine(files, environ, packages, cwd, failAt), name, for_builder)} :
              /\ Commit(m, "build", name, for_builder)
              /\ Advance(m, "build", "archive")
              /\ trace' = trace \o Invocations(m, "build", name)
    /\ UNCHANGED <<host, runs>>

\* the end of the script: the output tarball is written
DriverArchive ==
    /\ pc = "archive"
    /\ files' = files \cup {output_tarball}
    /\ pc' = "done"
    /\ UNCHANGED <<host, environ, packages, cwd, last, ncalls, idx, runs, trace>>

\* the caller invokes the script again: a new process, the same disk
DriverRerun ==
    /\ pc \in {"aborted", "done"}
    /\ runs < MaxRuns
    /\ runs' = runs + 1
    /\ environ' = host.ambient
    /\ packages' = FreshPackages
    /\ cwd' = StartDir
    /\ last' = NoCall
    /\ pc' = "start"
    /\ idx' = 1
    /\ trace' = << >>
    /\ UNCHANGED <<host, files, ncalls>>

DriverNext ==
    \/ DriverSkip
    \/ DriverCreateDirectories
    \/ DriverExtract
    \/ DriverBuild
    \/ DriverArchive
    \/ DriverRerun

DriverSpec == DriverInit /\ [][DriverNext]_vars

(* ------------------------------- claims ------------------------------- *)

\* a step of a behaviour that is one Builder call
IsCall == ncalls' = ncalls + 1

\* the call just made returned at once, having done nothing
Skipped ==
    /\ last'.cmds = << >>
    /\ last'.exc = "none"
    /\ files' = files
    /\ environ' = environ
    /\ packages' = packages
    /\ cwd' = cwd

\* what an install step of package `name` leaves under `prefix`
Artifact(prefix, name) == path_join(path_join(prefix, <<"lib">>), <<"lib", name>>)

\* C1: when build(package, role) has succeeded and build is called again for the same
\* package and role, the second call issues no external invocation and changes
\* nothing: the invocations of the two calls together are those of the first, which
\* all exited zero.
C1_SecondBuildIsNoOp ==
    [][(/\ IsCall
        /\ last.op = "build" /\ last.exc = "none"
        /\ last'.op = "build" /\ last'.pkg = last.pkg /\ last'.for_builder = last.for_builder)
       => (/\ Skipped
           /\ last.cmds \o last'.cmds = last.cmds
           /\ \A i \in 1..Len(last.cmds) : last.cmds[i].ok)]_vars

\* C1 witness: the second of two calls was a build that ran nothing, for a package
\* the first call built and installed.
C1_Witness ==
    /\ ncalls = 2
    /\ last.op = "build" /\ last.cmds = << >> /\ last.exc = "none"
    /\ installed_file(last.pkg, last.for_builder) \in files
    /\ Artifact(_prefix(last.for_builder), last.pkg) \in files

\* C2: when an external invocation of build(package, role) exits non-zero, build
\* raises, that invocation is the last one the call issues, and no marker of the
\* package exists under the role's prefix afterwards.
C2_FailurePropagates ==
    (last.op = "build" /\ \E i \in 1..Len(last.cmds) : ~last.cmds[i].ok)
    => (/\ last.exc = "CalledProcessError"
        /\ \A i \in 1..Len(last.cmds) : ~last.cmds[i].ok => i = Len(last.cmds)
        /\ ~path_exists(files, installed_file(last.pkg, last.for_builder)))

\* C2 witness: the compile step of the third pass of the multi-pass build failed.
C2_Witness ==
    /\ last.op = "build" /\ last.pkg = "x265"
    /\ Len(last.cmds) = 8
    /\ ~last.cmds[8].ok

\* the marker build writes and checks for the driver's current package
DriverMarker == installed_file(all_packages[idx], is_host_tool(all_packages[idx]))

\* C3: in the driver, extract(package) is skipped exactly when the marker that
\* build(package, role) writes and checks is present, host-tool packages included.
C3_ExtractGuardedByBuildMarker ==
    [][(IsCall /\ pc = "extract")
       => (path_exists(files, DriverMarker) <=> Skipped)]_vars

\* C4: in a retried run, a package that has its marker gets no fetch, extraction,
\* patch or backend invocation, and the build of a package that has none issues a
\* build sequence, which ends in its marker unless an invocation fails.
C4_RetryRedoesOnlyUnmarked ==
    [][(IsCall /\ runs >= 2 /\ pc \in {"extract", "build"})
       => IF path_exists(files, DriverMarker) THEN Skipped
          ELSE pc = "build" => (/\ last'.cmds # << >>
                                /\ last'.exc = "none" => path_exists(files', DriverMarker))]_vars

\* the names with a marker in the ledger of a role's prefix
Ledger(fs, for_builder) ==
    {n \in DOMAIN packages : already_installed(fs, installed_file(n, for_builder))}

\* C5: the marker a build writes under one role's prefix changes the answer of no
\* lookup against the other role's prefix, for any package name, and a marker path
\* of one ledger is no path of, above or below the other's.
C5_LedgersDisjoint ==
    [][(IsCall /\ last'.op = "build")
       => (/\ Ledger(files', ~last'.for_builder) = Ledger(files, ~last'.for_builder)
           /\ \A a, b \in DOMAIN packages :
                 /\ ~IsUnder(installed_file(a, TRUE), installed_file(b, FALSE))
                 /\ ~IsUnder(installed_file(a, FALSE), installed_file(b, TRUE)))]_vars

\* C5 witness: a package has its marker under the host-tool prefix, and the call
\* just made for it against the target prefix did its work all the same.
C5_Witness ==
    /\ last.op \in {"build", "extract"}
    /\ ~last.for_builder
    /\ path_exists(files, installed_file(last.pkg, TRUE))
    /\ path_exists(files, path_join(self_build_dir, <<last.pkg>>))
    /\ last.op = "build" => last.cmds # << >> /\ last.exc = "none"

\* the multi-pass package's scratch install path
DummyInstallPath == path_join(path_join(self_build_dir, <<"x265">>), <<"dummy_install_path">>)

IsCMakeSequence(cmds, i) ==
    /\ cmds[i].argv[1] = <<"cmake">> /\ ~IsCompile(cmds[i].argv) /\ ~IsInstall(cmds[i].argv)
    /\ IsCompile(cmds[i + 1].argv) /\ cmds[i + 1].argv[1] = <<"cmake">>
    /\ IsInstall(cmds[i + 2].argv) /\ cmds[i + 2].argv[1] = <<"cmake">>

\* C6: a build of x265 that succeeds issues exactly three CMake sequences; the
\* first two select the scratch install path, the third the prefix of the role; and
\* whatever the outcome, an install step of the first two passes never selects a
\* prefix, and x265 is under a role's prefix only if the third pass installed it.
C6_ThreePassesTwoThrowaway ==
    (last.op = "build" /\ last.pkg = "x265" /\ last.cmds # << >>)
    => (/\ last.exc = "none" =>
              /\ Len(last.cmds) = 9
              /\ \A i \in {1, 4, 7} : IsCMakeSequence(last.cmds, i)
              /\ InstallPrefixOf(last.cmds[7].argv) = _prefix(last.for_builder)
              /\ Artifact(_prefix(last.for_builder), "x265") \in files
        /\ \A i \in 1..Len(last.cmds) :
              (i <= 6 /\ IsInstall(last.cmds[i].argv)) =>
                 /\ InstallPrefixOf(last.cmds[i - 2].argv) = DummyInstallPath
                 /\ IsUnder(DummyInstallPath, self_build_dir)
                 /\ \A r \in BOOLEAN : ~IsUnder(DummyInstallPath, _prefix(r))
        /\ Len(last.cmds) < 9 \/ ~last.cmds[9].ok
              => Artifact(_prefix(last.for_builder), "x265") \notin files)

\* C6 witness: all three passes of the multi-pass build ran and installed.
C6_Witness ==
    /\ last.op = "build" /\ last.pkg = "x265" /\ last.exc = "none"
    /\ Len(last.cmds) = 9
    /\ Artifact(DummyInstallPath, "x265") \in files

\* s occurs in t as a contiguous run of tokens
Contains(t, s) == \E i \in 0..(Len(t) - Len(s)) : SubSeq(t, i + 1, i + Len(s)) = s

\* some argument of the invocation contains s
Names(cmd, s) == \E i \in 1..Len(cmd.argv) : Contains(cmd.argv[i], s)

\* the archives in the build directory of a static pass
ArchivesIn(dir) ==
    {Basename(f) : f \in {g \in files : IsUnder(g, path_join(path_join(self_build_dir, <<"x265">>),
                                                              <<dir>>))
                                         /\ g[Len(g)] = ".a"}}

\* C7 as claimed: the arguments of the third pass contain the file names of both
\* renamed archives, as the os.rename calls wrote them, and the two LINKED flags.
C7_LinkArgumentsNameRenamedFiles ==
    (last.op = "build" /\ last.pkg = "x265" /\ Len(last.cmds) >= 7)
    => (/\ \A d \in {"x265-10bits", "x265-12bits"} :
              \A a \in ArchivesIn(d) : Names(last.cmds[7], a)
        /\ Names(last.cmds[7], <<"-DLINKED_10BIT=1">>)
        /\ Names(last.cmds[7], <<"-DLINKED_12BIT=1">>))

\* C7 amended: each static pass leaves exactly one archive, lib<stem>.a, in its
\* build directory; EXTRA_LIB names it as <stem>.a, without the lib prefix, and
\* EXTRA_LINK_FLAGS has -L../<dir> for that build directory, which is a sibling of
\* the third pass's working directory; both LINKED flags are given.
C7_LinkArgumentsNameRenamedStems ==
    (last.op = "build" /\ last.pkg = "x265" /\ Len(last.cmds) >= 7)
    => (/\ \A d \in {"x265-10bits", "x265-12bits"} :
              /\ Cardinality(ArchivesIn(d)) = 1
              /\ \A a \in ArchivesIn(d) :
                    /\ Head(a) = "lib"
                    /\ a # <<"lib", "x265", ".a">>
                    /\ \E i \in 1..Len(last.cmds[7].argv) :
                          /\ Head(last.cmds[7].argv[i]) = "-DEXTRA_LIB="
                          /\ Contains(last.cmds[7].argv[i], Tail(a))
                    /\ ~Names(last.cmds[7], a)
              /\ \E i \in 1..Len(last.cmds[7].argv) :
                    /\ Head(last.cmds[7].argv[i]) = "-DEXTRA_LINK_FLAGS="
                    /\ Contains(last.cmds[7].argv[i], <<"-L", "..", "/", d>>)
              /\ last.cmds[7].cwd = path_join(path_join(self_build_dir, <<"x265">>), <<"build">>)
        /\ Names(last.cmds[7], <<"-DLINKED_10BIT=1">>)
        /\ Names(last.cmds[7], <<"-DLINKED_12BIT=1">>))

\* C7 witness: the third pass of the multi-pass build was started, after both renames.
C7_Witness ==
    /\ last.op = "build" /\ last.pkg = "x265" /\ Len(last.cmds) >= 7
    /\ ArchivesIn("x265-12bits") = {Renamed12}
    /\ ArchivesIn("x265-10bits") = {Renamed10}

\* C8: every field of every Package object of the caller has its value at construction.
C8_PackagesNeverMutated == packages = FreshPackages

\* C9: a build leaves os.environ as it was; the mappings _environment returns for
\* one role within a call are equal; and the first mapping a build derives equals
\* the last one the build before it derived, when the role is the same.
C9_DerivationNonDestructive ==
    [][(IsCall /\ last'.op = "build")
       => (/\ environ' = environ
           /\ \A i, j \in 1..Len(last'.derived) :
                 last'.derived[i].for_builder = last'.derived[j].for_builder
                 => last'.derived[i].env = last'.derived[j].env
           /\ (/\ last.op = "build"
               /\ last.derived # << >> /\ last'.derived # << >>
               /\ last.derived[Len(last.derived)].for_builder = last'.derived[1].for_builder)
              => last'.derived[1].env = last.derived[Len(last.derived)].env)]_vars

\* C9 witness: two builds in a row each derived an environment for the same role,
\* the second of them three times, from an environment that had CPPFLAGS set.
C9_Witness ==
    /\ ncalls = 2
    /\ last.op = "build" /\ Len(last.derived) = 3
    /\ "CPPFLAGS" \in DOMAIN environ
    /\ Len(last.derived[1].env["CPPFLAGS"]) > Len(environ["CPPFLAGS"])
    /\ \E n \in ApiNames : path_exists(files, Artifact(_prefix(last.for_builder), n))

\* C10 as claimed: os.environ equals its value when the process started.
C10_EnvironNeverMutated == environ = host.ambient

\* C10 amended: extract and build leave os.environ as it was; create_directories
\* changes PATH alone, to the host-tool prefix's bin directory, the platform's
\* separator and the old PATH.
C10_OnlyCreateDirectoriesPrependsPath ==
    [][IsCall
       => IF last'.op = "create_directories"
          THEN /\ DOMAIN environ' = DOMAIN environ \cup {"PATH"}
               /\ \A v \in DOMAIN environ \ {"PATH"} : environ'[v] = environ[v]
               /\ environ'["PATH"] =
                     path_join(builder_dest_dir, <<"bin">>)
                     \o (IF host.system = "Windows" THEN <<";">> ELSE <<":">>)
                     \o environ["PATH"]
          ELSE environ' = environ]_vars

\* C10 witness: after create_directories, a build ran its invocations with the
\* prepended PATH.
C10_Witness ==
    /\ last.op = "build" /\ last.cmds # << >>
    /\ environ # host.ambient
    /\ last.cmds[1].env["PATH"] = environ["PATH"]

\* a prepend that keeps the old value whenever the variable is set
PrependedIfSet(env, v, new, sep) == IF v \in DOMAIN env THEN new \o sep \o env[v] ELSE new

\* a prepend that keeps the old value whenever the variable is set and not empty
PrependedIfNonEmpty(env, v, new, sep) ==
    IF v \in DOMAIN env /\ env[v] # << >> THEN new \o sep \o env[v] ELSE new

\* every mapping the last call derived is os.environ with each variable the deriver
\* prepends to changed as Prepended says, and every other variable as it was
DerivedByPrepending(Prepended(_, _, _, _)) ==
    \A i \in 1..Len(last.derived) :
        LET d == last.derived[i]
            prefix == _prefix(d.for_builder)
            target == host.system = "Darwin" /\ ~d.for_builder
            arch == environ["ARCHFLAGS"]
            ldflags == Prepended(environ, "LDFLAGS",
                                 <<"-L">> \o _mangle_path(path_join(prefix, <<"lib">>)), <<" ">>)
            archvars == IF ~target THEN {}
                        ELSE IF arch = ArchArm64 THEN {"ASFLAGS", "CFLAGS", "CXXFLAGS"}
                        ELSE {"CFLAGS", "CXXFLAGS"}
            touched == {"CPPFLAGS", "LDFLAGS", "PKG_CONFIG_PATH"} \cup archvars
        IN  /\ DOMAIN d.env = DOMAIN environ \cup touched
            /\ d.env["CPPFLAGS"] =
                  Prepended(environ, "CPPFLAGS",
                            <<"-I">> \o _mangle_path(path_join(prefix, <<"include">>)), <<" ">>)
            /\ d.env["PKG_CONFIG_PATH"] =
                  Prepended(environ, "PKG_CONFIG_PATH",
                            _mangle_path(path_join(path_join(prefix, <<"lib">>), <<"pkgconfig">>)),
                            <<":">>)
            /\ d.env["LDFLAGS"] = (IF target THEN arch \o <<" ">> \o ldflags ELSE ldflags)
            /\ \A v \in archvars : d.env[v] = Prepended(environ, v, arch, <<" ">>)
            /\ \A v \in DOMAIN environ \ touched : d.env[v] = environ[v]

\* C11 as claimed: for every variable the deriver prepends to, the derived value is
\* new value + separator + old value when the variable is set in os.environ, and
\* the new value alone when it is not set.
C11_PrependKeepsOldWhenSet ==
    last.op = "build" => DerivedByPrepending(PrependedIfSet)

\* C11 amended: the derived value is new value + separator + old value when the
\* variable is set to a value that is not empty, and the new value alone, with no
\* separator, when it is not set or set to the empty string.
C11_PrependKeepsOldWhenNonEmpty ==
    last.op = "build" => DerivedByPrepending(PrependedIfNonEmpty)

\* C11 witness: a build for the target prefix /vendor against CPPFLAGS=-DX derived
\* CPPFLAGS = "-I/vendor/include -DX".
C11_Witness ==
    /\ last.op = "build" /\ last.derived # << >>
    /\ dict_get(environ, "CPPFLAGS") = <<"-DX">>
    /\ last.derived[1].env["CPPFLAGS"] = <<"-I", "/", "vendor", "/", "include", " ", "-DX">>

\* the paths of the scratch tree
Scratch(fs) == {f \in fs : IsUnder(f, self_build_dir)}

\* the archive of a package has more than one top-level path segment
Ambiguous(package) == Cardinality({FirstSegment(n) : n \in TarNames(package.name)}) > 1

\* C12: extract of a package with source_strip_components = 1 whose archive has
\* more than one top-level segment raises (an assertion error, unless the fetch of
\* the archive failed first), leaves the scratch tree as it was, without the
\* package's directory, and starts no patch.
C12_AmbiguousArchiveFailsFast ==
    [][(/\ IsCall /\ last'.op = "extract"
        /\ packages[last'.pkg].source_strip_components = 1
        /\ Ambiguous(packages[last'.pkg]))
       => (/\ last'.exc # "none"
           /\ (\A i \in 1..Len(last'.cmds) : last'.cmds[i].ok) => last'.exc = "AssertionError"
           /\ Scratch(files') = Scratch(files)
           /\ ~path_exists(files', path_join(self_build_dir, <<packages[last'.pkg].name>>))
           /\ \A i \in 1..Len(last'.cmds) : StepKind(last'.cmds[i].argv) # "patch")]_vars

\* C12 witness: extract of the package with the two-segment archive, which has a
\* patch, was called with the scratch tree in place, fetched the archive and raised.
C12_Witness ==
    /\ last.op = "extract" /\ last.pkg = "serf"
    /\ last.exc = "AssertionError"
    /\ path_exists(files, self_build_dir)
    /\ path_exists(files, path_join(self_patch_dir, <<"serf", ".patch">>))
    /\ path_exists(files, path_join(self_source_dir, LastSegment(packages["serf"].source_url)))

\* the position of a package in the caller's list
PackageIndex(name) == CHOOSE i \in 1..Len(all_packages) : all_packages[i] = name

\* configure/generate, compile, install, in this order; a fetch the adapter makes
\* (config.guess, config.sub) comes before them
StepRank(step) ==
    IF step = "configure" THEN 1 ELSE IF step = "compile" THEN 2 ELSE IF step = "install" THEN 3 ELSE 0

\* C13 as claimed: in the trace of the external invocations of a run, every
\* invocation of package i comes before every invocation of package j, for i < j.
C13_AllInvocationsInPackageOrder ==
    \A p, q \in 1..Len(trace) :
        p < q => PackageIndex(trace[p].pkg) <= PackageIndex(trace[q].pkg)

\* C13 amended: the invocations of the extractions (fetch, patch) of all packages
\* come first; the invocations of the builds follow in the order of the caller's
\* list, package by package, each package's in the order configure, compile,
\* install; an install is preceded by a configure and a compile of the same package
\* that exited zero; and no invocation follows one that exited non-zero.
C13_BuildInvocationsInPackageOrder ==
    /\ \A p, q \in 1..Len(trace) :
          p < q =>
             /\ trace[p].ok
             /\ trace[q].op = "extract" => trace[p].op = "extract"
             /\ trace[p].op = trace[q].op
                   => PackageIndex(trace[p].pkg) <= PackageIndex(trace[q].pkg)
             /\ (trace[p].op = "build" /\ trace[q].op = "build" /\ trace[p].pkg = trace[q].pkg)
                   => /\ StepRank(trace[p].step) <= StepRank(trace[q].step)
                      /\ StepRank(trace[p].step) = StepRank(trace[q].step)
                            => trace[p].step = "fetch"
    /\ \A q \in 1..Len(trace) :
          (trace[q].op = "build" /\ trace[q].step = "install") =>
             /\ q > 2
             /\ \A k \in {1, 2} :
                   /\ trace[q - k].op = "build" /\ trace[q - k].pkg = trace[q].pkg
                   /\ trace[q - k].ok
                   /\ StepRank(trace[q - k].step) = 3 - k

\* C13 witness: a run of the driver built and installed its first package and its
\* last one, after extractions that fetched and patched.
C13_Witness ==
    /\ pc = "done"
    /\ \E a, b, c, d \in 1..Len(trace) :
          /\ trace[a].op = "extract" /\ trace[a].step = "patch"
          /\ trace[b].op = "extract" /\ trace[b].pkg = "ffmpeg"
          /\ trace[c].op = "build" /\ trace[c].pkg = all_packages[1]
             /\ trace[c].step = "install" /\ trace[c].ok
          /\ trace[d].op = "build" /\ trace[d].pkg = "ffmpeg"
             /\ trace[d].step = "install" /\ trace[d].ok

\* the markers in the ledger of a role's prefix
Markers(fs, for_builder) ==
    {f \in fs : IsUnder(f, path_join(path_join(path_join(_prefix(for_builder), <<"var">>),
                                                <<"lib">>), <<"cibuildpkg">>))}

\* C14: no Builder call removes a marker, and a call that adds one is a build of
\* that package for that prefix that raised nothing and whose last invocation was
\* an install step into the prefix (as given to the backend, which on Windows is
\* its rewritten spelling for some adapters) that exited zero, after which the
\* package is under the prefix.
C14_MarkersOnlyGrowAfterInstall ==
    [][IsCall =>
         \A r \in BOOLEAN :
            /\ Markers(files, r) \subseteq Markers(files', r)
            /\ \A f \in Markers(files', r) \ Markers(files, r) :
                  /\ last'.op = "build" /\ last'.for_builder = r
                  /\ f = installed_file(packages[last'.pkg].name, r)
                  /\ last'.exc = "none"
                  /\ Len(last'.cmds) >= 3
                  /\ \A i \in 1..Len(last'.cmds) : last'.cmds[i].ok
                  /\ IsInstall(last'.cmds[Len(last'.cmds)].argv)
                  /\ LET given == InstallPrefixOf(last'.cmds[Len(last'.cmds) - 2].argv)
                     IN  /\ _mangle_path(given) = _mangle_path(_prefix(r))
                         /\ Artifact(given, packages[last'.pkg].name) \in files']_vars

\* C14 witness: create_directories has just reset the scratch tree of a Builder
\* that had built a package, whose marker is there.
C14_Witness ==
    /\ ncalls = 2
    /\ last.op = "create_directories"
    /\ \E r \in BOOLEAN : Markers(files, r) # {}
    /\ Scratch(files) = {self_build_dir}

\* the build directory of a pass of the multi-pass build
PassDir(dir) == path_join(path_join(self_build_dir, <<"x265">>), <<dir>>)

\* the two archives under the names the renames give them
RenamedArchives == {path_join(PassDir("x265-12bits"), Renamed12),
                    path_join(PassDir("x265-10bits"), Renamed10)}

\* C15: a multi-pass build runs pass A (12-bit) in its build directory, then pass B
\* (10-bit), then pass C; when the six invocations of passes A and B exited zero,
\* both archives are renamed and pass C is started with the link arguments; when
\* one of them did not, the call issues nothing more, renames nothing, installs
\* nothing under the role's prefix, sets no arguments and writes no marker.
C15_RenamesBetweenStaticPassesAndPassC ==
    [][(IsCall /\ last'.op = "build" /\ last'.pkg = "x265" /\ last'.cmds # << >>)
       => LET c == last'.cmds
              staticOK == Len(c) >= 6 /\ \A i \in 1..6 : c[i].ok
          IN  /\ \A i \in 1..Len(c) :
                    c[i].cwd = (IF i <= 3 THEN PassDir("x265-12bits")
                                ELSE IF i <= 6 THEN PassDir("x265-10bits")
                                ELSE PassDir("build"))
              /\ Names(c[1], <<"-DMAIN12=1">>)
              /\ Len(c) >= 4 => Names(c[4], <<"-DHIGH_BIT_DEPTH=1">>) /\ ~Names(c[4], <<"-DMAIN12=1">>)
              /\ staticOK =>
                    /\ RenamedArchives \subseteq files'
                    /\ \A d \in {"x265-12bits", "x265-10bits"} :
                          path_join(PassDir(d), <<"lib", "x265", ".a">>) \notin files'
                    /\ Len(c) >= 7
                    /\ \A a \in {3, 4} : Names(c[7], x265_link_arguments[a])
              /\ ~staticOK =>
                    /\ Len(c) <= 6
                    /\ ~c[Len(c)].ok
                    /\ RenamedArchives \cap files' \subseteq files
                    /\ Artifact(_prefix(last'.for_builder), "x265") \in files'
                          => Artifact(_prefix(last'.for_builder), "x265") \in files
                    /\ packages' = packages
                    /\ ~path_exists(files', installed_file("x265", last'.for_builder))]_vars

\* C15 witness: pass A of a multi-pass build succeeded and pass B failed in its
\* compile step: the archive of pass A is there under the name the build gave it.
C15_Witness ==
    /\ last.op = "build" /\ last.pkg = "x265"
    /\ Len(last.cmds) = 5 /\ ~last.cmds[5].ok
    /\ path_join(PassDir("x265-12bits"), <<"lib", "x265", ".a">>) \in files
    /\ RenamedArchives \cap files = {}

\* a string that holds a path in its Windows spelling: a backslash or a drive letter
NativeSpelling(t) == \E i \in 1..Len(t) : t[i] \in {"\\", "C:", "D:"}

\* C16: on Windows no argument of a backend invocation of any adapter holds a path
\* that was not rewritten (backslashes to slashes, drive letter to /<letter>); on
\* the other platforms every path argument is the path itself.
C16_EveryPathArgumentMangled ==
    last.op = "build" =>
        \A i \in 1..Len(last.cmds) :
            LET c == last.cmds[i]
                source == path_join(path_join(self_build_dir, <<packages[last.pkg].name>>),
                                    packages[last.pkg].source_dir)
            IN  /\ host.system = "Windows" => \A a \in 1..Len(c.argv) : ~NativeSpelling(c.argv[a])
                /\ (host.system # "Windows" /\ StepKind(c.argv) = "configure") =>
                       /\ c.argv[2] \in {source, path_join(source, <<"configure">>)}
                       /\ \E a \in 1..Len(c.argv) :
                              IsPrefixArg(c.argv[a]) /\ Tail(c.argv[a]) = _prefix(last.for_builder)

\* the last call was a cross-build: for arm64 on Darwin, not for the host-tool prefix
CrossBuild ==
    /\ host.system = "Darwin"
    /\ dict_get(environ, "ARCHFLAGS") = ArchArm64
    /\ ~last.for_builder

CacheVariables == {"ac_cv_func_malloc_0_nonnull", "ac_cv_func_realloc_0_nonnull"}
TripleArguments == { <<"--build=x86_64-apple-darwin">>, <<"--host=aarch64-apple-darwin">> }
ArchArguments == { <<"--arch=arm64">>, <<"--enable-cross-compile">> }

\* the arguments of an invocation, as a set
Arguments(cmd) == {cmd.argv[a] : a \in 1..Len(cmd.argv)}

\* in the last call, an autoconf build of one of the packages Applies holds of, a
\* cross-build pre-seeds the two cache variables for configure, make and make
\* install and gives configure the triples, or for ffmpeg the architecture and
\* cross-compile flags; any other build does none of this
CrossInjection(Applies(_)) ==
    (/\ last.op = "build"
     /\ packages[last.pkg].name # "x265"
     /\ packages[last.pkg].build_system = "autoconf"
     /\ Applies(packages[last.pkg].name))
    => \A i \in 1..Len(last.cmds) :
          LET c == last.cmds[i]
              given == Arguments(c)
          IN  c.argv[1] \in {<<"sh">>, <<"make">>} =>
                 IF CrossBuild
                 THEN /\ \A v \in CacheVariables : dict_get(c.env, v) = <<"yes">>
                      /\ c.argv[1] = <<"sh">> =>
                            IF packages[last.pkg].name = "ffmpeg"
                            THEN ArchArguments \subseteq given /\ TripleArguments \cap given = {}
                            ELSE TripleArguments \subseteq given /\ ArchArguments \cap given = {}
                 ELSE /\ CacheVariables \cap DOMAIN c.env = {}
                      /\ (TripleArguments \cup ArchArguments) \cap given = {}

AnyPackage(name) == TRUE
NotVpx(name) == name # "vpx"

\* C17 as claimed: the injection rule holds of every package built with the
\* autoconf adapter.
C17_CrossInjectionForEveryPackage == CrossInjection(AnyPackage)

\* C17 amended: the injection rule holds of every package built with the autoconf
\* adapter but the one named vpx, which gets no cache variable, no triple and no
\* architecture flag on any platform, and on a cross-build --target=arm64-darwin20-gcc.
C17_CrossInjectionExceptVpx ==
    /\ CrossInjection(NotVpx)
    /\ (last.op = "build" /\ packages[last.pkg].name = "vpx") =>
          \A i \in 1..Len(last.cmds) :
             /\ CacheVariables \cap DOMAIN last.cmds[i].env = {}
             /\ (TripleArguments \cup ArchArguments) \cap Arguments(last.cmds[i]) = {}
             /\ last.cmds[i].argv[1] = <<"sh">> =>
                   (CrossBuild <=> <<"--target=arm64-darwin20-gcc">> \in Arguments(last.cmds[i]))

\* C17 witness: ffmpeg was configured, compiled and installed in a cross-build,
\* with the cache variables and the architecture flags.
C17_Witness ==
    /\ last.op = "build" /\ last.pkg = "ffmpeg" /\ CrossBuild
    /\ Len(last.cmds) = 3 /\ last.exc = "none"
    /\ ArchArguments \subseteq Arguments(last.cmds[1])
    /\ last.cmds[3].env["ac_cv_func_malloc_0_nonnull"] = <<"yes">>

\* the call being made is extract of a package whose archive cannot be stripped
ExtractsAmbiguous ==
    /\ IsCall /\ last'.op = "extract"
    /\ packages[last'.pkg].source_strip_components = 1
    /\ Ambiguous(packages[last'.pkg])

\* the call being made is build of the multi-pass package given build arguments,
\* and no marker makes it return at once
BuildsMultiPassWithArguments ==
    /\ IsCall /\ last'.op = "build"
    /\ packages[last'.pkg].name = "x265"
    /\ packages[last'.pkg].build_arguments # << >>
    /\ ~path_exists(files, installed_file("x265", last'.for_builder))

\* the file extract keeps a package's archive in
CacheEntry(package) ==
    path_join(self_source_dir, IF package.source_filename # << >> THEN package.source_filename
                               ELSE LastSegment(package.source_url))

\* C18 as claimed: a call that meets a configuration error raises the assertion
\* error without having started any external command.
C18_ConfigErrorsBeforeAnyInvocation ==
    [][(ExtractsAmbiguous \/ BuildsMultiPassWithArguments)
       => (last'.exc = "AssertionError" /\ last'.cmds = << >>)]_vars

\* C18 amended: build of the multi-pass package with build arguments raises the
\* assertion error having started nothing and changed nothing; extract of a
\* package with an ambiguous archive starts no command but the fetch of the
\* archive, which it starts exactly when the archive is not in the cache, and
\* raises the assertion error once the archive is there, before any extraction.
C18_ConfigErrorsBeforeExtractionAndBuild ==
    [][/\ BuildsMultiPassWithArguments
          => (/\ last'.exc = "AssertionError" /\ last'.cmds = << >>
              /\ files' = files /\ packages' = packages /\ environ' = environ)
       /\ ExtractsAmbiguous
          => LET cached == path_exists(files, CacheEntry(packages[last'.pkg]))
             IN  /\ Len(last'.cmds) = (IF cached THEN 0 ELSE 1)
                 /\ \A i \in 1..Len(last'.cmds) :
                       /\ StepKind(last'.cmds[i].argv) = "fetch"
                       /\ last'.cmds[i].argv[4] = CacheEntry(packages[last'.pkg])
                 /\ last'.exc = (IF \A i \in 1..Len(last'.cmds) : last'.cmds[i].ok
                                 THEN "AssertionError" ELSE "CalledProcessError")
                 /\ Scratch(files') = Scratch(files)]_vars

\* C18 witness: extract fetched an archive that was not in the cache, found two
\* top-level segments in it and raised.
C18_Witness ==
    /\ last.op = "extract" /\ Ambiguous(packages[last.pkg])
    /\ Len(last.cmds) = 1 /\ last.cmds[1].ok /\ StepKind(last.cmds[1].argv) = "fetch"
    /\ last.exc = "AssertionError"

\* the programs the invocations of a call started, fetches aside
Programs(cmds) == {cmds[i].argv[1] : i \in {j \in 1..Len(cmds) : StepKind(cmds[j].argv) # "fetch"}}

\* C19: a build that is not skipped runs one strategy, selected in this order: for
\* the name x265 the multi-pass composer, whatever the build_system (it starts in
\* the build directory of pass A with CMake, or raises its assertion, and never
\* runs another backend); else for cmake the CMake adapter, for meson the meson
\* adapter, for autoconf the autoconf adapter; any other build_system raises the
\* assertion error with no invocation and no marker.
C19_OneStrategyByOrderedMatch ==
    [][(/\ IsCall /\ last'.op = "build"
        /\ ~path_exists(files, installed_file(packages[last'.pkg].name, last'.for_builder)))
       => LET package == packages[last'.pkg]
              c == last'.cmds
              marked == path_exists(files', installed_file(package.name, last'.for_builder))
          IN  IF package.name = "x265"
              THEN /\ Programs(c) \subseteq {<<"cmake">>}
                   /\ c # << >> => c[1].cwd = PassDir("x265-12bits")
                   /\ c = << >> => last'.exc = "AssertionError" /\ ~marked
                   /\ (package.build_system = "cmake" /\ package.build_arguments = << >>)
                         => c # << >>
              ELSE IF package.build_system = "cmake"
              THEN Programs(c) = {<<"cmake">>}
              ELSE IF package.build_system = "meson"
              THEN Programs(c) \in {{<<"meson">>}, {<<"meson">>, <<"ninja">>}}
              ELSE IF package.build_system = "autoconf"
              THEN Programs(c) \in {{<<"sh">>}, {<<"sh">>, <<"make">>}}
                   \/ (Programs(c) = {} /\ c # << >> /\ ~c[Len(c)].ok)
              ELSE /\ c = << >>
                   /\ last'.exc = "AssertionError"
                   /\ files' = files
                   /\ ~marked]_vars

\* C19 witness: build was called for a package named x265 whose build_system is
\* meson: it raised the assertion error of the CMake adapter and ran nothing.
C19_Witness ==
    /\ last.op = "build" /\ packages[last.pkg].name = "x265"
    /\ packages[last.pkg].build_system = "meson"
    /\ last.exc = "AssertionError" /\ last.cmds = << >>

\* the entries of the source-archive cache
Cache(fs) == {f \in fs : IsUnder(f, self_source_dir) /\ f # self_source_dir}

\* the files the fetches of a call were to write
Fetched(cmds) == {cmds[i].argv[4] : i \in {j \in 1..Len(cmds) : StepKind(cmds[j].argv) = "fetch"}}

PatchFile(name) == path_join(self_patch_dir, <<name, ".patch">>)

\* the files of a package's archive in its canonical directory, the top-level
\* segment stripped
SourceTree(name) ==
    {path_join(path_join(self_build_dir, <<name>>),
               replace_token(SubSeq(n, Len(FirstSegment(n)) + 2, Len(n)), "/", Sep)) :
        n \in TarNames(name)}

\* C21: in a run of the driver a package's patch is applied at most once, by
\* extract, as the last thing extract does, with the package's archive unpacked in
\* its canonical directory and its patch file there, after invocations that all
\* exited zero and before every build invocation of the package; an extract that
\* is skipped or raises before that point starts no patch, and one that unpacked a
\* package that has a patch file applies it.
C21_PatchOnceRightAfterExtraction ==
    /\ \A p, q \in 1..Len(trace) :
          (trace[q].step = "patch") =>
             /\ trace[q].op = "extract"
             /\ path_exists(files, PatchFile(trace[q].pkg))
             /\ (trace[p].step = "patch" /\ trace[p].pkg = trace[q].pkg) => p = q
             /\ (trace[p].op = "build" /\ trace[p].pkg = trace[q].pkg) => q < p
             /\ p < q => trace[p].ok
    /\ last.op = "extract" =>
          LET n == Len(last.cmds)
              patched == \E i \in 1..n : StepKind(last.cmds[i].argv) = "patch"
              skipped == path_exists(files, installed_file(last.pkg, FALSE))
              canonical == path_join(self_build_dir, <<last.pkg>>)
          IN  /\ patched =>
                    /\ StepKind(last.cmds[n].argv) = "patch"
                    /\ \A i \in 1..(n - 1) : StepKind(last.cmds[i].argv) = "fetch"
                    /\ last.cmds[n].argv =
                          << <<"patch">>, <<"-d">>, canonical, <<"-i">>, PatchFile(last.pkg), <<"-p1">> >>
                    /\ SourceTree(last.pkg) \subseteq files
                    /\ ~skipped
              /\ (~skipped /\ SourceTree(last.pkg) \subseteq files
                  /\ path_exists(files, PatchFile(last.pkg))) => patched
              /\ ~(SourceTree(last.pkg) \subseteq files) => ~patched

\* C21 witness: a run fetched, unpacked and patched openjpeg, and later configured it.
C21_Witness ==
    \E q, p \in 1..Len(trace) :
        /\ q < p
        /\ trace[q].pkg = "openjpeg" /\ trace[q].step = "patch" /\ trace[q].ok
        /\ trace[p].pkg = "openjpeg" /\ trace[p].op = "build" /\ trace[p].step = "configure"

\* the CPU architectures the builds run emulated on
Emulated == {"aarch64", "ppc64le", "s390x"}

\* C22: every compile step of a build, whatever the backend, is given the jobs
\* argument exactly when the package's build_parallel is true and the CPU
\* architecture is not an emulated one.
C22_JobsArgumentExactlyWhenAllowed ==
    last.op = "build" =>
        \A i \in 1..Len(last.cmds) :
            StepKind(last.cmds[i].argv) = "compile" =>
               (<<"-j">> \in Arguments(last.cmds[i])
                <=> (packages[last.pkg].build_parallel /\ host.machine \notin Emulated))

\* C23: a call of Builder.build, whether it returns or raises, leaves the
\* process working directory what it was before the call.
C23_BuildRestoresWorkingDirectory ==
    [][IsCall /\ last'.op = "build" => cwd' = cwd]_vars

\* a build that raised out of an adapter, in a directory it had changed into
C23_Witness ==
    /\ last.op = "build" /\ last.exc = "CalledProcessError"
    /\ last.cmds # << >>
    /\ ~last.cmds[Len(last.cmds)].ok
    /\ last.cmds[Len(last.cmds)].cwd # cwd

\* the backend invocations (configure, compile, install) among the commands of a call
BackendSteps(cmds) ==
    {i \in 1..Len(cmds) : StepKind(cmds[i].argv) \in {"configure", "compile", "install"}}

\* C24: in the driver, create_directories leaves no source tree in the scratch
\* directory, a package's source tree appears there only by the extract call of
\* that package, and whenever build issues a backend invocation for a package,
\* host tool or target, the package's source tree is in the scratch directory:
\* it was extracted earlier in the same run.
C24_BackendOnlyAfterExtractionInSameRun ==
    [][IsCall =>
         /\ (last'.op = "create_directories" /\ last'.exc = "none")
               => \A n \in DOMAIN packages : SourceTree(packages[n].name) \cap files' = {}
         /\ \A n \in DOMAIN packages :
               ~(SourceTree(packages[n].name) \cap files' \subseteq files)
                  => /\ last'.op = "extract" /\ last'.pkg = n
                     /\ SourceTree(packages[n].name) \cap files = {}
                     /\ SourceTree(packages[n].name) \subseteq files'
         /\ (last'.op = "build" /\ BackendSteps(last'.cmds) # {})
               => SourceTree(packages[last'.pkg].name) \subseteq files]_vars

\* a later run of the driver builds a target package from a tree extracted in
\* that run, while the markers of a host tool and of an earlier target package,
\* written by an earlier run, are present
C24_Witness ==
    /\ runs > 1
    /\ last.op = "build" /\ ~last.for_builder /\ BackendSteps(last.cmds) # {}
    /\ SourceTree(packages[last.pkg].name) \subseteq files
    /\ Markers(files, TRUE) # {}
    /\ \E n \in DOMAIN packages :
          n # last.pkg /\ path_exists(files, installed_file(packages[n].name, FALSE))

\* the libraries ffmpeg's configure can be told to enable, each with the package
\* that builds it and its pair of switches
Libraries ==
    { [pkg |-> "openjpeg", on |-> <<"--enable-libopenjpeg">>, off |-> <<"--disable-libopenjpeg">>],
      [pkg |-> "x264", on |-> <<"--enable-libx264">>, off |-> <<"--disable-libx264">>],
      [pkg |-> "x265", on |-> <<"--enable-libx265">>, off |-> <<"--disable-libx265">>],
      [pkg |-> "dav1d", on |-> <<"--enable-libdav1d">>, off |-> <<"--disable-libdav1d">>],
      [pkg |-> "openh264", on |-> <<"--enable-libopenh264">>, off |-> <<"--disable-libopenh264">>] }

\* the arguments enable the library: its switch is given and not withdrawn later
EnabledIn(args, l) ==
    \E i \in 1..Len(args) : args[i] = l.on /\ \A j \in (i + 1)..Len(args) : args[j] # l.off

\* the package is in the driver's list of packages to build
InBuildList(n) == \E i \in 1..Len(all_packages) : all_packages[i] = n

\* C25: the arguments of ffmpeg enable a library exactly when the library's
\* package is in the list of packages to build, and with --disable-gpl no
\* package classified gpl is in that list.
C25_LibrariesEnabledMatchBuildList ==
    /\ \A l \in Libraries :
          EnabledIn(packages["ffmpeg"].build_arguments, l) <=> InBuildList(l.pkg)
    /\ host.disable_gpl =>
          \A i \in 1..Len(all_packages) : ~packages[all_packages[i]].gpl

====
